---- MODULE Spec2Model ----
(***************************************************************************)
(* A model of the risp expression interpreter: the AST / Object data       *)
(* model (src/src/lib.rs:5-37), the recursive evaluator eval               *)
(* (src/src/lib.rs:39-90), the arithmetic on Objects (src/src/impls.rs)    *)
(* and a host session that calls eval repeatedly on one environment, as    *)
(* the tests and src/src/bin/rec.rs do.                                    *)
(***************************************************************************)
EXTENDS Integers, Sequences, FiniteSets, TLC

VARIABLES
    env,              \* the session's HashMap<String, Object>
    last,             \* the most recent top-level call of eval: its ast, the env before, its outcome
    nDefs,            \* number of set-up evaluations made so far
    alive,            \* FALSE once a call has aborted the process or the driver has finished
    overflow_checks   \* build profile: TRUE = arithmetic overflow panics (debug), FALSE = wraps (release)

vars == <<env, last, nDefs, alive, overflow_checks>>

---------------------------------------------------------------------------
(* Bounds *)

\* usize is modelled UsizeBits wide
UsizeBits == 3
\* depth of nested eval calls the stack can hold
StackLimit == 12
\* number of set-up evaluations a session makes before its probe
MaxDefs == 2

Modulus == 2 ^ UsizeBits
UsizeMax == Modulus - 1

---------------------------------------------------------------------------
(* AST, src/src/lib.rs:6-30 *)

Num(v) == [tag |-> "Num", n |-> v]
Bool(v) == [tag |-> "Bool", b |-> v]
Add(l, r) == [tag |-> "Add", left |-> l, right |-> r]
Minus(l, r) == [tag |-> "Minus", left |-> l, right |-> r]
Equal(l, r) == [tag |-> "Equal", left |-> l, right |-> r]
If(c, t, e) == [tag |-> "If", cond |-> c, then |-> t, els |-> e]
Define(nm, v) == [tag |-> "Define", name |-> nm, value |-> v]
Ident(nm) == [tag |-> "Ident", id |-> nm]
Function(ps, b) == [tag |-> "Function", params |-> ps, body |-> b]
Apply(f, as) == [tag |-> "Apply", fn_lit |-> f, args |-> as]

(* Object, src/src/lib.rs:33-37.  Object::Num, Object::Bool and            *)
(* Object::Function have the shape of the AST literals of the same name.   *)
ObjNum(v) == [tag |-> "Num", n |-> v]
ObjBool(v) == [tag |-> "Bool", b |-> v]
ObjFunction(ps, b) == [tag |-> "Function", params |-> ps, body |-> b]

\* placeholder in the val field of an outcome that carries no Object
NoObject == [tag |-> "None"]

---------------------------------------------------------------------------
(* Outcomes of a call of eval: a returned Object, a panic, or the stack    *)
(* running out.  env is the environment the call leaves behind.            *)

Ok(v, e) == [st |-> "ok", why |-> "none", val |-> v, env |-> e]
Panic(w, e) == [st |-> "panic", why |-> w, val |-> NoObject, env |-> e]
StackOverflow(e) == [st |-> "stack_overflow", why |-> "stack", val |-> NoObject, env |-> e]

---------------------------------------------------------------------------
(* HashMap<String, Object> *)

EmptyEnv == [k \in {} |-> NoObject]

\* mutant of Insert: an existing key keeps its value (entry().or_insert)
InsertIfAbsent(m, k, v) == [x \in (DOMAIN m) \cup {k} |-> IF x \in DOMAIN m THEN m[x] ELSE v]

\* HashMap::insert: insert or overwrite
Insert(m, k, v) == [x \in (DOMAIN m) \cup {k} |-> IF x = k THEN v ELSE m[x]]

\* HashMap::extend: every pair of other is inserted, replacing an existing key's value
Extend(m, other) == [x \in (DOMAIN m) \cup (DOMAIN other) |-> IF x \in DOMAIN other THEN other[x] ELSE m[x]]

---------------------------------------------------------------------------
(* Arithmetic on Objects, src/src/impls.rs *)

\* usize + usize and usize - usize: panic with overflow checks, wrap without
UsizeAdd(a, b) ==
    IF a + b > UsizeMax
    THEN IF overflow_checks THEN Panic("arith_overflow", EmptyEnv)
         ELSE Ok(ObjNum((a + b) % Modulus), EmptyEnv)
    ELSE Ok(ObjNum(a + b), EmptyEnv)

UsizeSub(a, b) ==
    IF a < b
    THEN IF overflow_checks THEN Panic("arith_overflow", EmptyEnv)
         ELSE Ok(ObjNum((a - b + Modulus) % Modulus), EmptyEnv)
    ELSE Ok(ObjNum(a - b), EmptyEnv)

ObjAdd(l, r) ==
    IF l.tag = "Num" /\ r.tag = "Num" THEN UsizeAdd(l.n, r.n)
    ELSE Panic("type_mismatch", EmptyEnv)

ObjSub(l, r) ==
    IF l.tag = "Num" /\ r.tag = "Num" THEN UsizeSub(l.n, r.n)
    ELSE Panic("type_mismatch", EmptyEnv)

\* an arithmetic outcome, in the environment e the operands left behind
InEnv(r, e) == [r EXCEPT !.env = e]

---------------------------------------------------------------------------
(* eval, src/src/lib.rs:39-90 *)

\* mutant of Branch: the guard v != 0 is missing, every Num selects then
BranchNumAlwaysThen(c) ==
    CASE c.tag = "Bool" /\ c.b -> "then"
      [] c.tag = "Bool" /\ ~c.b -> "els"
      [] c.tag = "Num" -> "then"
      [] OTHER -> "unimplemented"

\* the match on the condition's Object in AST::If
Branch(c) ==
    CASE c.tag = "Bool" /\ c.b -> "then"
      [] c.tag = "Bool" /\ ~c.b -> "els"
      [] c.tag = "Num" /\ c.n # 0 -> "then"
      [] c.tag = "Num" -> "els"
      [] OTHER -> "unimplemented"

\* AST::Ident
Lookup(id, e) ==
    IF id \in DOMAIN e THEN Ok(e[id], e) ELSE Panic("undefined_ident", e)

\* mutant of AfterClone: the call is made on env itself, not on a clone
AfterCloneShared(callerEnv, r) == r

\* what a call made on env.clone() leaves of the caller's env: the caller's env
AfterClone(callerEnv, r) == [r EXCEPT !.env = callerEnv]

\* mutant of DeepEnv: the caller's bindings are not merged in
DeepEnvParamsOnly(collected, callerEnv) == collected

\* deep_env: the collected parameter map, extended with the caller's env
DeepEnv(collected, callerEnv) == Extend(collected, callerEnv)

RECURSIVE Eval(_, _, _)
RECURSIVE EvalPair(_, _, _, _)
RECURSIVE ZipCollect(_, _, _, _, _, _)

\* mutant of EvalPair: the right operand is evaluated first
EvalPairRightFirst(left, right, e, d) ==
    LET r == Eval(right, e, d)
    IN IF r.st # "ok" THEN r
       ELSE LET l == Eval(left, r.env, d)
            IN IF l.st # "ok" THEN l
               ELSE [st |-> "ok", why |-> "none", val |-> NoObject, env |-> l.env,
                     l |-> l.val, r |-> r.val]

\* mutant of EvalPair: the left operand's call recurses on the node itself, not on its child
EvalPairOnSelf(left, right, e, d) ==
    LET l == Eval(Equal(left, right), e, d)
    IN IF l.st # "ok" THEN l
       ELSE LET r == Eval(right, l.env, d)
            IN IF r.st # "ok" THEN r
               ELSE [st |-> "ok", why |-> "none", val |-> NoObject, env |-> r.env,
                     l |-> l.val, r |-> r.val]

\* the operands of a binary node: left first, then right, both against the
\* same &mut env, so the right operand runs in what the left one left behind
EvalPair(left, right, e, d) ==
    LET l == Eval(left, e, d)
    IN IF l.st # "ok" THEN l
       ELSE LET r == Eval(right, l.env, d)
            IN IF r.st # "ok" THEN r
               ELSE [st |-> "ok", why |-> "none", val |-> NoObject, env |-> r.env,
                     l |-> l.val, r |-> r.val]

\* params.into_iter().zip(args_val).collect(): args_val is a lazy map, so for
\* each parameter in turn the next argument is evaluated on a clone of env and
\* the pair inserted; the walk ends when either side runs out
ZipCollect(params, args, i, acc, e, d) ==
    IF i > Len(params) THEN Ok(NoObject, acc)
    ELSE IF i > Len(args) THEN Ok(NoObject, acc)
    ELSE LET a == AfterClone(e, Eval(args[i], e, d))
         IN IF a.st # "ok" THEN a
            ELSE ZipCollect(params, args, i + 1, Insert(acc, params[i], a.val), e, d)

Eval(ast, e, d) ==
    IF d = 0 THEN StackOverflow(e)
    ELSE CASE ast.tag = "Num" -> Ok(ObjNum(ast.n), e)
      [] ast.tag = "Bool" -> Ok(ObjBool(ast.b), e)
      [] ast.tag = "Add" ->
            LET p == EvalPair(ast.left, ast.right, e, d - 1)
            IN IF p.st # "ok" THEN p ELSE InEnv(ObjAdd(p.l, p.r), p.env)
      [] ast.tag = "Minus" ->
            LET p == EvalPair(ast.left, ast.right, e, d - 1)
            IN IF p.st # "ok" THEN p ELSE InEnv(ObjSub(p.l, p.r), p.env)
      [] ast.tag = "If" ->
            LET c == Eval(ast.cond, e, d - 1)
            IN IF c.st # "ok" THEN c
               ELSE CASE Branch(c.val) = "then" -> Eval(ast.then, c.env, d - 1)
                      [] Branch(c.val) = "els" -> Eval(ast.els, c.env, d - 1)
                      [] OTHER -> Panic("unimplemented", c.env)
      [] ast.tag = "Equal" ->
            LET p == EvalPair(ast.left, ast.right, e, d - 1)
            IN IF p.st # "ok" THEN p ELSE Ok(ObjBool(p.l = p.r), p.env)
      [] ast.tag = "Define" ->
            LET v == Eval(ast.value, e, d - 1)
            IN IF v.st # "ok" THEN v
               ELSE Ok(v.val, Insert(v.env, ast.name, v.val))
      [] ast.tag = "Ident" -> Lookup(ast.id, e)
      [] ast.tag = "Function" -> Ok(ObjFunction(ast.params, ast.body), e)
      [] ast.tag = "Apply" ->
            LET f == AfterClone(e, Eval(ast.fn_lit, e, d - 1))
            IN IF f.st # "ok" THEN f
               ELSE IF f.val.tag # "Function" THEN Panic("unimplemented", e)
               ELSE LET z == ZipCollect(f.val.params, ast.args, 1, EmptyEnv, e, d - 1)
                    IN IF z.st # "ok" THEN z
                       ELSE AfterClone(e, Eval(f.val.body, DeepEnv(z.env, e), d - 1))

---------------------------------------------------------------------------
(* Programs the host evaluates *)

\* numeric literals: small ones and the largest usize
Lits == {0, 1, 2, UsizeMax}

\* (Func (a b) (+ a (+ b 1))), src/src/lib.rs:226
FnF == Function(<<"a", "b">>, Add(Ident("a"), Add(Ident("b"), Num(1))))
\* (Func (n) (If (== n 1) 1 (+ n (Apply sum (- n 1))))), src/src/bin/rec.rs:19-25
FnSum == Function(<<"n">>,
            If(Equal(Ident("n"), Num(1)), Num(1),
               Add(Ident("n"), Apply(Ident("sum"), <<Minus(Ident("n"), Num(1))>>))))
\* a function whose body reads x, a name it does not bind
FnG == Function(<<"y">>, Add(Ident("y"), Ident("x")))
\* a function that calls itself with no base case
FnLoop == Function(<<>>, Apply(Ident("loop"), <<>>))

\* top-level definitions a session makes before its probe
SetupPrograms ==
    {Define("x", Num(v)) : v \in {0, 1, 2}}
    \cup {Define("x", Bool(TRUE)), Define("y", Num(1))}
    \cup {Define("f", FnF), Define("sum", FnSum), Define("g", FnG), Define("loop", FnLoop)}

\* Apply of the identity on one parameter, the parameter named like a caller binding or not
ShadowProbes ==
    {Apply(Function(<<p>>, Ident(p)), <<a>>) :
        p \in {"x", "y"},
        a \in {Num(0), Num(2), Ident("x"), Ident("y"), Add(Ident("x"), Num(1))}}

\* (Apply sum k), src/src/bin/rec.rs:27
SumProbes == {Apply(Ident("sum"), <<Num(k)>>) : k \in 1..3}

\* Apply with fewer or more arguments than parameters
ArityProbes ==
    {Apply(Function(<<"a">>, Num(1)), <<>>),
     Apply(Function(<<"a">>, Ident("a")), <<Num(1), Num(2)>>),
     Apply(Function(<<>>, Num(1)), <<Num(2)>>),
     Apply(Function(<<"a">>, Ident("a")), <<>>),
     Apply(Ident("f"), <<Num(1)>>),
     Apply(Ident("f"), <<Num(1), Num(2), Ident("zz")>>)}

\* Apply with Define inside an argument, the callee or the body
FrameProbes ==
    {Apply(Function(<<"a", "b">>, Ident("b")), <<Define(nm, Num(2)), Ident(nm)>>) : nm \in {"x", "y"}}
    \cup {Apply(Function(<<"a", "b">>, Ident("a")), <<Ident(nm), Define(nm, Num(2))>>) : nm \in {"x", "y"}}
    \cup {Apply(Define("h", Function(<<"a">>, Ident("a"))), <<Num(1)>>),
          Apply(Function(<<"a">>, Define("x", Ident("a"))), <<Num(2)>>),
          Apply(Function(<<"a">>, Add(Define("y", Num(2)), Ident("y"))), <<Num(0)>>),
          Apply(Function(<<>>, Define("a", Ident("nope"))), <<>>)}

\* Minus and Add on literals
ArithProbes ==
    {Minus(Num(a), Num(b)) : a \in Lits, b \in Lits}
    \cup {Add(Num(a), Num(b)) : a \in Lits, b \in Lits}
    \cup {Minus(Add(Num(1), Num(2)), Num(2))}

\* Define at top level, of a bound or an unbound name, with a value that may itself define
DefineProbes ==
    {Define(nm, v) : nm \in {"x", "y"},
        v \in {Num(2), Ident("x"), Add(Ident("x"), Num(1)), Define("x", Num(0)), Bool(FALSE)}}

\* If on every kind of condition, each branch defining a different name
IfProbes ==
    {If(c, Define("x", Num(1)), Define("y", Num(2))) :
        c \in {Bool(TRUE), Bool(FALSE), Num(0), Num(1), Num(UsizeMax), Ident("x"), Ident("f"),
               Function(<<>>, Num(0)), Define("y", Num(0)), Equal(Ident("x"), Num(1))}}

\* the applications of the tests, src/src/lib.rs:222-239, and of functions that read caller bindings
CallProbes ==
    {Apply(Ident("f"), <<Num(a), Num(b)>>) : a \in {0, 1}, b \in {1, 2}}
    \cup {Apply(FnF, <<Num(1), Num(2)>>), Apply(FnF, <<Ident("x"), Ident("y")>>)}
    \cup {Apply(Ident("g"), <<Num(v)>>) : v \in {0, 1}}
    \cup {Apply(Function(<<"a", "a">>, Ident("a")), <<Num(1), Num(2)>>),
          Apply(Function(<<"a", "b">>, Minus(Ident("a"), Ident("b"))), <<Num(2), Num(1)>>),
          Apply(Ident("x"), <<Num(1)>>),
          Apply(Ident("loop"), <<>>)}

\* binary operators whose left operand defines what the right one reads, or with a non-Num operand
OrderProbes ==
    {Add(Define("x", Num(a)), Ident("x")) : a \in Lits}
    \cup {Minus(Define("x", Num(a)), Ident("x")) : a \in Lits}
    \cup {Add(Ident("x"), Define("x", Num(2))), Minus(Ident("x"), Define("x", Num(0)))}
    \cup {Add(Bool(TRUE), Num(1)), Add(Num(1), Bool(FALSE)), Minus(Num(1), Function(<<>>, Num(1))),
          Minus(Ident("f"), Num(0)), Add(Ident("x"), Ident("y"))}

\* expressions without Apply that read function objects of the environment
ReadProbes ==
    {Ident("loop"), Ident("sum"), Ident("x"),
     Equal(Ident("f"), FnF), Equal(Ident("loop"), Ident("loop")), Equal(Num(3), Add(Num(1), Num(2))),
     If(Ident("loop"), Num(1), Num(2)),
     Define("k", Ident("loop")),
     FnLoop}

ProbePrograms ==
    ShadowProbes \cup SumProbes \cup ArityProbes \cup FrameProbes \cup ArithProbes
    \cup DefineProbes \cup IfProbes \cup CallProbes \cup OrderProbes \cup ReadProbes

---------------------------------------------------------------------------
(* The host session: the tests of src/src/lib.rs and main of               *)
(* src/src/bin/rec.rs create an empty HashMap and call eval on it          *)
(* repeatedly.                                                             *)

NoCall == [ast |-> NoObject, before |-> EmptyEnv, out |-> Ok(NoObject, EmptyEnv)]

Init ==
    /\ env = EmptyEnv
    /\ last = NoCall
    /\ nDefs = 0
    /\ alive = TRUE
    /\ overflow_checks \in BOOLEAN

\* one call eval(ast, &mut env) by the host
Call(ast) ==
    LET r == Eval(ast, env, StackLimit)
    IN /\ last' = [ast |-> ast, before |-> env, out |-> r]
       /\ env' = r.env
       /\ UNCHANGED overflow_checks

\* a definition evaluated at top level before the probe
Setup ==
    /\ alive
    /\ nDefs < MaxDefs
    /\ \E ast \in SetupPrograms :
        /\ Call(ast)
        /\ nDefs' = nDefs + 1
        /\ alive' = (last'.out.st = "ok")

\* the expression the session evaluates last
Probe ==
    /\ alive
    /\ \E ast \in ProbePrograms :
        /\ Call(ast)
        /\ alive' = FALSE
        /\ UNCHANGED nDefs

Next == Setup \/ Probe

Spec == Init /\ [][Next]_vars

---------------------------------------------------------------------------
(* Helpers of the properties *)

\* the depth of nested eval calls the callee, an argument or a body runs at
Inner == StackLimit - 1

RECURSIVE NoApply(_)
\* ast contains no Apply node
NoApply(ast) ==
    CASE ast.tag \in {"Add", "Minus", "Equal"} -> NoApply(ast.left) /\ NoApply(ast.right)
      [] ast.tag = "If" -> NoApply(ast.cond) /\ NoApply(ast.then) /\ NoApply(ast.els)
      [] ast.tag = "Define" -> NoApply(ast.value)
      [] ast.tag = "Function" -> NoApply(ast.body)
      [] ast.tag = "Apply" -> FALSE
      [] OTHER -> TRUE

RECURSIVE NoDefine(_)
\* ast contains no Define node
NoDefine(ast) ==
    CASE ast.tag \in {"Add", "Minus", "Equal"} -> NoDefine(ast.left) /\ NoDefine(ast.right)
      [] ast.tag = "If" -> NoDefine(ast.cond) /\ NoDefine(ast.then) /\ NoDefine(ast.els)
      [] ast.tag = "Define" -> FALSE
      [] ast.tag = "Function" -> NoDefine(ast.body)
      [] ast.tag = "Apply" -> NoDefine(ast.fn_lit) /\ \A i \in 1..Len(ast.args) : NoDefine(ast.args[i])
      [] OTHER -> TRUE

Max2(a, b) == IF a > b THEN a ELSE b

RECURSIVE Height(_)
\* the number of nodes on the longest path of an Apply-free ast
Height(ast) ==
    CASE ast.tag \in {"Add", "Minus", "Equal"} -> 1 + Max2(Height(ast.left), Height(ast.right))
      [] ast.tag = "If" -> 1 + Max2(Height(ast.cond), Max2(Height(ast.then), Height(ast.els)))
      [] ast.tag = "Define" -> 1 + Height(ast.value)
      [] ast.tag = "Function" -> 1 + Height(ast.body)
      [] OTHER -> 1

\* the binding of k is the same in m1 and m2 (bound to equal Objects, or bound in neither)
SameBinding(m1, m2, k) ==
    /\ (k \in DOMAIN m1) = (k \in DOMAIN m2)
    /\ k \in DOMAIN m1 => m1[k] = m2[k]

AllNames == {"x", "y", "a", "b", "n", "f", "g", "h", "k", "sum", "loop", "nope", "zz"}

---------------------------------------------------------------------------
(* C1: in Apply, parameter bindings take precedence over same-named caller *)
(* bindings: Apply of Function{[p], Ident(p)} to one argument a returns    *)
(* the value of a evaluated against the caller's env, also when env binds  *)
(* p.                                                                      *)

IsIdentityApply(ast) ==
    /\ ast.tag = "Apply"
    /\ ast.fn_lit.tag = "Function"
    /\ Len(ast.fn_lit.params) = 1
    /\ ast.fn_lit.body = Ident(ast.fn_lit.params[1])
    /\ Len(ast.args) = 1

C1_ParamShadowsCaller ==
    IsIdentityApply(last.ast) =>
        LET a == Eval(last.ast.args[1], last.before, Inner)
        IN a.st = "ok" => (last.out.st = "ok" /\ last.out.val = a.val)

---------------------------------------------------------------------------
(* C2: with sum defined as in rec.rs in an otherwise empty environment,    *)
(* Apply(sum, [Num(k)]) terminates and yields Num(1 + 2 + ... + k) for     *)
(* every k >= 1.                                                           *)

C2_SumYieldsTriangular ==
    (last.ast \in SumProbes /\ last.before = Insert(EmptyEnv, "sum", FnSum)) =>
        LET k == last.ast.args[1].n
        IN last.out.st = "ok" /\ last.out.val = ObjNum((k * (k + 1)) \div 2)

---------------------------------------------------------------------------
(* C3: Apply whose callee evaluates to a Function with n parameters, given *)
(* a number of arguments other than n, fails with an error and produces no *)
(* result Object.                                                          *)

C3_ArityMismatchFails ==
    last.ast.tag = "Apply" =>
        LET f == Eval(last.ast.fn_lit, last.before, Inner)
        IN (f.st = "ok" /\ f.val.tag = "Function" /\ Len(f.val.params) # Len(last.ast.args))
            => last.out.st = "panic"

---------------------------------------------------------------------------
(* C4: evaluating an Apply leaves the caller's environment unchanged,      *)
(* whatever Defines run in an argument, in the callee expression or in the *)
(* body; a Define inside one argument is not visible to a sibling          *)
(* argument, while every argument reads the bindings the caller's          *)
(* environment held before the Apply.                                      *)

\* the outcome of reading nm in the environment m
ReadsAs(out, m, nm) ==
    IF nm \in DOMAIN m THEN out.st = "ok" /\ out.val = m[nm]
    ELSE out.st = "panic" /\ out.why = "undefined_ident"

C4_ApplyLeavesCallerEnv ==
    last.ast.tag = "Apply" =>
        /\ last.out.env = last.before
        /\ env = last.before
        /\ \A nm \in {"x", "y"} :
            /\ last.ast = Apply(Function(<<"a", "b">>, Ident("b")), <<Define(nm, Num(2)), Ident(nm)>>)
                => ReadsAs(last.out, last.before, nm)
            /\ last.ast = Apply(Function(<<"a", "b">>, Ident("a")), <<Ident(nm), Define(nm, Num(2))>>)
                => ReadsAs(last.out, last.before, nm)

\* an argument defines x as 2, its sibling reads x as the 1 the caller bound, and x stays 1
C4_Witness ==
    /\ last.ast = Apply(Function(<<"a", "b">>, Ident("b")), <<Define("x", Num(2)), Ident("x")>>)
    /\ "x" \in DOMAIN last.before
    /\ last.before["x"] = ObjNum(1)
    /\ last.out.st = "ok"
    /\ last.out.val = ObjNum(1)
    /\ env["x"] = ObjNum(1)

---------------------------------------------------------------------------
(* C5: Minus(Num(a), Num(b)) yields Num(a-b) when a >= b and fails with an *)
(* error, returning no Num, when a < b.                                    *)

C5_MinusUnderflowFails ==
    \A a \in Lits, b \in Lits :
        last.ast = Minus(Num(a), Num(b)) =>
            IF a >= b THEN last.out.st = "ok" /\ last.out.val = ObjNum(a - b)
            ELSE last.out.st = "panic"

---------------------------------------------------------------------------
(* C6: eval(Define{name, value}, env) returns the Object v that value      *)
(* evaluates to and leaves env binding name to v, inserted or overwritten, *)
(* every other binding as the evaluation of value left it (unchanged when  *)
(* value holds no Define); a following eval(Ident(name), env) returns v.   *)

---------------------------------------------------------------------------
(* C7: If evaluates cond and then exactly one branch: then for Bool(true)  *)
(* and Num(v), v # 0, else for Bool(false) and Num(0); the result is the   *)
(* selected branch's; a Define of the other branch never reaches env; a    *)
(* Function condition fails with an error.                                 *)

C7_IfSelectsOneBranch ==
    last.ast.tag = "If" =>
        LET c == Eval(last.ast.cond, last.before, Inner)
        IN c.st = "ok" =>
            /\ (c.val = ObjBool(TRUE) \/ (c.val.tag = "Num" /\ c.val.n # 0))
                => /\ last.out = Eval(last.ast.then, c.env, Inner)
                   /\ last.ast.then = Define("x", Num(1)) /\ last.ast.els = Define("y", Num(2))
                        => /\ last.out.val = ObjNum(1)
                           /\ env["x"] = ObjNum(1)
                           /\ SameBinding(env, c.env, "y")
            /\ (c.val = ObjBool(FALSE) \/ c.val = ObjNum(0))
                => /\ last.out = Eval(last.ast.els, c.env, Inner)
                   /\ last.ast.then = Define("x", Num(1)) /\ last.ast.els = Define("y", Num(2))
                        => /\ last.out.val = ObjNum(2)
                           /\ env["y"] = ObjNum(2)
                           /\ SameBinding(env, c.env, "x")
            /\ c.val.tag = "Function"
                => /\ last.out.st = "panic"
                   /\ env = c.env

\* Num(0) selects else: y is defined, and x, which then would define, stays unbound
C7_Witness ==
    /\ last.ast = If(Num(0), Define("x", Num(1)), Define("y", Num(2)))
    /\ last.before = EmptyEnv
    /\ last.out.val = ObjNum(2)
    /\ DOMAIN env = {"y"}

---------------------------------------------------------------------------
(* C8: for an Apply whose callee evaluates to Function{[p1..pn], body},    *)
(* given n arguments, the pi pairwise distinct and none bound in the       *)
(* caller's environment, body is evaluated in an environment that binds    *)
(* each pi to the value of the i-th argument and holds every binding of    *)
(* the caller's environment at the time of the call: the body reads names  *)
(* the caller binds, whenever they were defined.                           *)

ParamSet(ps) == {ps[i] : i \in 1..Len(ps)}

\* the environment C8 describes: the caller's bindings, and each parameter bound to its argument
CallEnvOf(ps, args, callerEnv) ==
    [k \in (DOMAIN callerEnv) \cup ParamSet(ps) |->
        IF k \in DOMAIN callerEnv THEN callerEnv[k]
        ELSE Eval(args[CHOOSE i \in 1..Len(ps) : ps[i] = k], callerEnv, Inner).val]

C8_BodySeesParamsAndCaller ==
    last.ast.tag = "Apply" =>
        LET f == Eval(last.ast.fn_lit, last.before, Inner)
            args == last.ast.args
        IN (/\ f.st = "ok"
            /\ f.val.tag = "Function"
            /\ Len(f.val.params) = Len(args)
            /\ Cardinality(ParamSet(f.val.params)) = Len(f.val.params)
            /\ ParamSet(f.val.params) \cap DOMAIN last.before = {}
            /\ \A i \in 1..Len(args) : Eval(args[i], last.before, Inner).st = "ok")
            => LET b == Eval(f.val.body, CallEnvOf(f.val.params, args, last.before), Inner)
               IN /\ last.out.st = b.st
                  /\ last.out.why = b.why
                  /\ last.out.val = b.val
                  /\ last.ast = Apply(Ident("f"), args) /\ args[1].tag = "Num" /\ args[2].tag = "Num"
                        => last.out.val = ObjNum(args[1].n + args[2].n + 1)
                  /\ (/\ last.ast = Apply(Ident("g"), args)
                      /\ "x" \in DOMAIN last.before
                      /\ last.before["x"].tag = "Num")
                        => last.out.val = ObjNum(args[1].n + last.before["x"].n)

\* g, whose body adds its parameter y to x, is applied to 1 where the caller binds x to 2
C8_Witness ==
    /\ last.ast = Apply(Ident("g"), <<Num(1)>>)
    /\ DOMAIN last.before = {"g", "x"}
    /\ last.before["x"] = ObjNum(2)
    /\ last.out.st = "ok"
    /\ last.out.val = ObjNum(3)

---------------------------------------------------------------------------
(* C9: Add and Minus evaluate the left operand before the right one, both  *)
(* against the same environment: a Define made by the left operand is read *)
(* by the right one and stays in env (Add(Define{x, Num(a)}, Ident(x))     *)
(* yields Num(a+a), a+a being a usize, and leaves x bound to Num(a)); a    *)
(* non-Num operand makes the operation fail with an error.                 *)

C9_LeftThenRightSameEnv ==
    /\ \A a \in Lits :
        /\ (last.ast = Add(Define("x", Num(a)), Ident("x")) /\ a + a <= UsizeMax)
            => /\ last.out.st = "ok"
               /\ last.out.val = ObjNum(a + a)
               /\ env["x"] = ObjNum(a)
        /\ last.ast = Minus(Define("x", Num(a)), Ident("x"))
            => /\ last.out.st = "ok"
               /\ last.out.val = ObjNum(0)
               /\ env["x"] = ObjNum(a)
    /\ last.ast.tag \in {"Add", "Minus"} =>
        LET l == Eval(last.ast.left, last.before, Inner)
            r == Eval(last.ast.right, l.env, Inner)
        IN (l.st = "ok" /\ r.st = "ok") =>
            /\ env = r.env
            /\ (l.val.tag # "Num" \/ r.val.tag # "Num") => last.out.st = "panic"

\* the left operand defines x, unbound before, as 2; the right operand reads it: 4
C9_Witness ==
    /\ last.ast = Add(Define("x", Num(2)), Ident("x"))
    /\ "x" \notin DOMAIN last.before
    /\ last.out.val = ObjNum(4)
    /\ env["x"] = ObjNum(2)

---------------------------------------------------------------------------
(* C10: the evaluation of an AST without Apply nodes terminates, with an   *)
(* Object or an error, in every environment, also one that binds names to  *)
(* Function objects: its nested eval calls are never deeper than the AST   *)
(* is high, so it never runs out of stack.                                 *)

C10_NoApplyTerminates ==
    (last.ast.tag # "None" /\ NoApply(last.ast)) =>
        /\ last.out.st \in {"ok", "panic"}
        /\ Height(last.ast) <= StackLimit
        /\ Eval(last.ast, last.before, Height(last.ast)) = last.out

\* an Apply-free expression that reads a non-terminating function of the environment ends
C10_Witness ==
    /\ last.ast = Equal(Ident("loop"), Ident("loop"))
    /\ "loop" \in DOMAIN last.before
    /\ last.before["loop"] = FnLoop
    /\ last.out.st = "ok"
    /\ last.out.val = ObjBool(TRUE)

====
